---- MODULE Spec2Model ----
(***************************************************************************)
(* Thompson sampling for a Bernoulli bandit:                               *)
(*   src/mabworkshoppy/src/mabworkshoppy/thompson.py                       *)
(*       thompson_sampling_bernoulli(true_probs, n_trials, rng)            *)
(*   src/mabworkshoppy/ts_demo.py  (seeded generator and the call)         *)
(*                                                                         *)
(* Arrays are functions over 0..n-1, as numpy indexes them.                *)
(* Probabilities are fixed-point: the integer k stands for k/Scale, so the *)
(* interval [0,1] is 0..Scale; -1 and Scale+1 are the out-of-range values. *)
(* A Beta sample is one of BetaLevels ordered levels; any level can come   *)
(* out for any posterior (alpha, beta >= 1 gives full support on (0,1)).   *)
(***************************************************************************)
EXTENDS Integers, Sequences, FiniteSets, TLC

MaxArms == 2
MaxTrials == 2
Scale == 2
BetaLevels == 2
DemoSeed == 666

ProbVals == (0 - 1)..(Scale + 1)
TrialVals == (0 - 1)..MaxTrials

VARIABLES
    pc,               \* "call", "loop", "pull", "ret", "done", "error"
    run,              \* 1 for the first call, 2 for the repeated call
    seed,             \* <<>> for an unseeded generator, <<s>> for default_rng(s)
    stream,           \* values the seeded generator has delivered, by position
    draws,            \* kinds of the values consumed from rng in this call
    first,            \* <<>> or <<outcome of the first call>>
    true_probs, n_trials,
    n_arms, alpha, beta, choices, rewards, best_prob, realized_regret,
    t, sampled_probs, chosen_arm,
    cumulative_regret, static_choices, static_realized_regret,
    static_cumulative_regret,
    result            \* <<>> or <<the returned dictionary>>

locals == <<n_arms, alpha, beta, choices, rewards, best_prob, realized_regret,
            t, sampled_probs, chosen_arm, cumulative_regret, static_choices,
            static_realized_regret, static_cumulative_regret>>
vars == <<pc, run, seed, stream, draws, first, true_probs, n_trials, locals, result>>

----------------------------------------------------------------------------
(* numpy and builtin helpers                                               *)

Idx(n) == 0..(n - 1)

len(a) == Cardinality(DOMAIN a)

ones(n) == [i \in Idx(n) |-> 1]

zeros(n) == [i \in Idx(n) |-> 0]

\* builtin max over a non-empty sequence
max(a) == CHOOSE m \in {a[i] : i \in DOMAIN a} : \A i \in DOMAIN a : a[i] <= m

RECURSIVE argmax_scan(_, _, _)
argmax_scan(s, i, best) ==
    IF i \notin DOMAIN s THEN best
    ELSE argmax_scan(s, i + 1, IF s[i] > s[best] THEN i ELSE best)

RECURSIVE argmax_scan_last(_, _, _)
argmax_scan_last(s, i, best) ==
    IF i \notin DOMAIN s THEN best
    ELSE argmax_scan_last(s, i + 1, IF s[i] >= s[best] THEN i ELSE best)

argmax_last(s) == argmax_scan_last(s, 1, 0)

\* numpy argmax: index of the first occurrence of the maximum
argmax(s) == argmax_scan(s, 1, 0)

RECURSIVE sum_to(_, _)
sum_to(x, k) == IF k < 0 THEN 0 ELSE sum_to(x, k - 1) + x[k]

cumsum_flat(x) == x

\* numpy cumsum
cumsum(x) == [k \in DOMAIN x |-> sum_to(x, k)]

\* rng.binomial(1, p) by inversion: the raw uniform u stands for u/Scale in
\* [0,1); success iff u/Scale < p/Scale.
binomial(u, p) == IF u < p THEN 1 ELSE 0

\* rng.binomial raises ValueError for p < 0 or p > 1
binomial_raises(p) == p < 0 \/ p > Scale

in_range_inclusive(i, n) == i <= n

\* for t in range(n_trials): the loop body runs while t < n_trials
in_range(i, n) == i < n

regret_swapped(best, p) == p - best

\* best_prob - true_probs[arm]
regret(best, p) == best - p

update_alpha_first_arm(a, arm, r) == IF r = 1 THEN [a EXCEPT ![0] = @ + 1] ELSE a

update_alpha_inverted(a, arm, r) == IF r = 0 THEN [a EXCEPT ![arm] = @ + 1] ELSE a

\* if reward == 1: alpha[chosen_arm] += 1
update_alpha(a, arm, r) == IF r = 1 THEN [a EXCEPT ![arm] = @ + 1] ELSE a

update_beta_always(b, arm, r) == [b EXCEPT ![arm] = @ + 1]

\* else: beta[chosen_arm] += 1
update_beta(b, arm, r) == IF r = 1 THEN b ELSE [b EXCEPT ![arm] = @ + 1]

----------------------------------------------------------------------------
(* The randomness source.  A seeded generator delivers a fixed stream: the *)
(* value at a position is chosen the first time the position is read and   *)
(* is the same for every generator built from the same seed.               *)

AsSeq(a) == [j \in 1..len(a) |-> a[j - 1]]

Kinds(k, n) == [j \in 1..n |-> k]

Delivers(vals) ==
    \/ seed = <<>>
    \/ \A j \in 1..Len(vals) :
          Len(draws) + j <= Len(stream) => stream[Len(draws) + j] = vals[j]

Memo(vals) ==
    IF seed = <<>> THEN stream
    ELSE [p \in 1..(IF Len(stream) > Len(draws) + Len(vals)
                    THEN Len(stream) ELSE Len(draws) + Len(vals)) |->
             IF p <= Len(stream) THEN stream[p] ELSE vals[p - Len(draws)]]

default_rng_shared(s) == draws

\* default_rng(seed): a fresh generator, nothing consumed yet
default_rng(s) == <<>>

----------------------------------------------------------------------------
(* State after the call is made, before line 41                            *)

NoLocals ==
    /\ n_arms = 0 /\ alpha = <<>> /\ beta = <<>>
    /\ choices = <<>> /\ rewards = <<>> /\ best_prob = 0
    /\ realized_regret = <<>> /\ t = 0
    /\ sampled_probs = <<>> /\ chosen_arm = 0
    /\ cumulative_regret = <<>> /\ static_choices = <<>>
    /\ static_realized_regret = <<>> /\ static_cumulative_regret = <<>>

Inputs ==
    /\ \E n \in 0..MaxArms : true_probs \in [Idx(n) -> ProbVals]
    /\ n_trials \in TrialVals

Init ==
    /\ pc = "call" /\ run = 1 /\ seed = <<>> /\ stream = <<>> /\ draws = <<>>
    /\ first = <<>> /\ result = <<>>
    /\ Inputs
    /\ NoLocals

InitDet ==
    /\ pc = "call" /\ run = 1 /\ seed = <<DemoSeed>> /\ stream = <<>> /\ draws = <<>>
    /\ first = <<>> /\ result = <<>>
    /\ Inputs
    /\ NoLocals

----------------------------------------------------------------------------
(* Lines 41-52: allocation.  zeros(n_trials) raises for n_trials < 0       *)
(* (line 47) and max(true_probs) raises for an empty sequence (line 51).   *)
Setup ==
    /\ pc = "call"
    /\ n_arms' = len(true_probs)
    /\ alpha' = ones(len(true_probs))
    /\ beta' = ones(len(true_probs))
    /\ IF n_trials < 0
       THEN /\ pc' = "error"
            /\ UNCHANGED <<choices, rewards, best_prob, realized_regret>>
       ELSE /\ choices' = zeros(n_trials)
            /\ rewards' = zeros(n_trials)
            /\ IF len(true_probs) = 0
               THEN /\ pc' = "error"
                    /\ UNCHANGED <<best_prob, realized_regret>>
               ELSE /\ best_prob' = max(true_probs)
                    /\ realized_regret' = zeros(n_trials)
                    /\ pc' = "loop"
    /\ UNCHANGED <<run, seed, stream, draws, first, true_probs, n_trials, t,
                   sampled_probs, chosen_arm, cumulative_regret, static_choices,
                   static_realized_regret, static_cumulative_regret, result>>

(* Lines 54-60: one Beta draw per arm, argmax, choices[t] = chosen_arm     *)
Sample ==
    /\ pc = "loop"
    /\ in_range(t, n_trials)
    /\ \E s \in [Idx(n_arms) -> Idx(BetaLevels)] :
          /\ Delivers(AsSeq(s))
          /\ stream' = Memo(AsSeq(s))
          /\ sampled_probs' = s
          /\ chosen_arm' = argmax(s)
          /\ choices' = [choices EXCEPT ![t] = argmax(s)]
    /\ draws' = draws \o Kinds("beta", n_arms)
    /\ pc' = "pull"
    /\ UNCHANGED <<run, seed, first, true_probs, n_trials, n_arms, alpha, beta,
                   rewards, best_prob, realized_regret, t, cumulative_regret,
                   static_choices, static_realized_regret,
                   static_cumulative_regret, result>>

(* Lines 63-73: Bernoulli draw, rewards[t], posterior update, regret.      *)
(* sampled_probs is read only by argmax on line 59 and rebound on line 56  *)
(* of the next iteration; the model forgets it when the iteration ends.    *)
Pull ==
    /\ pc = "pull"
    /\ IF binomial_raises(true_probs[chosen_arm])
       THEN /\ pc' = "error"
            /\ UNCHANGED <<stream, draws, rewards, alpha, beta, realized_regret, t,
                           sampled_probs>>
       ELSE /\ \E u \in Idx(Scale) :
                 /\ Delivers(<<u>>)
                 /\ stream' = Memo(<<u>>)
                 /\ rewards' = [rewards EXCEPT ![t] = binomial(u, true_probs[chosen_arm])]
                 /\ alpha' = update_alpha(alpha, chosen_arm,
                                          binomial(u, true_probs[chosen_arm]))
                 /\ beta' = update_beta(beta, chosen_arm,
                                        binomial(u, true_probs[chosen_arm]))
            /\ draws' = Append(draws, "binomial")
            /\ realized_regret' =
                  [realized_regret EXCEPT ![t] = regret(best_prob, true_probs[chosen_arm])]
            /\ t' = t + 1
            /\ sampled_probs' = <<>>
            /\ pc' = "loop"
    /\ UNCHANGED <<run, seed, first, true_probs, n_trials, n_arms, choices,
                   best_prob, chosen_arm, cumulative_regret,
                   static_choices, static_realized_regret,
                   static_cumulative_regret, result>>

(* Lines 75-80: cumulative regret and the static A/B baseline              *)
Baseline ==
    /\ pc = "loop"
    /\ ~in_range(t, n_trials)
    /\ cumulative_regret' = cumsum(realized_regret)
    /\ \E sc \in [Idx(n_trials) -> Idx(n_arms)] :
          /\ Delivers(AsSeq(sc))
          /\ stream' = Memo(AsSeq(sc))
          /\ static_choices' = sc
          /\ static_realized_regret' =
                [k \in Idx(n_trials) |-> regret(best_prob, true_probs[sc[k]])]
          /\ static_cumulative_regret' =
                cumsum([k \in Idx(n_trials) |-> regret(best_prob, true_probs[sc[k]])])
    /\ draws' = draws \o Kinds("integers", n_trials)
    /\ pc' = "ret"
    /\ UNCHANGED <<run, seed, first, true_probs, n_trials, n_arms, alpha, beta,
                   choices, rewards, best_prob, realized_regret, t,
                   sampled_probs, chosen_arm, result>>

(* Lines 82-90: the returned dictionary                                    *)
Return ==
    /\ pc = "ret"
    /\ result' = << [choices |-> choices,
                     rewards |-> rewards,
                     cumulative_regret |-> cumulative_regret,
                     static_cumulative_regret |-> static_cumulative_regret,
                     alpha |-> alpha,
                     beta |-> beta,
                     true_probs |-> true_probs] >>
    /\ pc' = "done"
    /\ UNCHANGED <<run, seed, stream, draws, first, true_probs, n_trials, locals>>

Outcome == [status |-> pc, result |-> result]

(* ts_demo.py lines 10-20 once more: a generator built from the same seed  *)
(* and a second call with the same true_probs and n_trials.                *)
Rerun ==
    /\ run = 1
    /\ pc \in {"done", "error"}
    /\ seed # <<>>
    /\ first' = <<Outcome>>
    /\ run' = 2
    /\ draws' = default_rng(seed)
    /\ pc' = "call"
    /\ result' = <<>>
    /\ n_arms' = 0 /\ alpha' = <<>> /\ beta' = <<>>
    /\ choices' = <<>> /\ rewards' = <<>> /\ best_prob' = 0
    /\ realized_regret' = <<>> /\ t' = 0
    /\ sampled_probs' = <<>> /\ chosen_arm' = 0
    /\ cumulative_regret' = <<>> /\ static_choices' = <<>>
    /\ static_realized_regret' = <<>> /\ static_cumulative_regret' = <<>>
    /\ UNCHANGED <<seed, stream, true_probs, n_trials>>

Next == Setup \/ Sample \/ Pull \/ Baseline \/ Return

NextDet == Next \/ Rerun

Spec == Init /\ [][Next]_vars

\* The call is synchronous and single-threaded: an enabled step is taken.
FairSpec == Spec /\ WF_vars(Next)

SpecDet == InitDet /\ [][NextDet]_vars

----------------------------------------------------------------------------
(* Properties                                                              *)

InvalidInput ==
    \/ len(true_probs) = 0
    \/ \E i \in DOMAIN true_probs : true_probs[i] < 0 \/ true_probs[i] > Scale
    \/ n_trials <= 0

ValidInput == ~InvalidInput

total(a) == sum_to(a, len(a) - 1)

Times(i) == Cardinality({k \in Idx(t) : choices[k] = i})

TimesWith(i, r) == Cardinality({k \in Idx(t) : choices[k] = i /\ rewards[k] = r})

\* C1: a call with empty true_probs, a probability outside [0,1] or
\* n_trials <= 0 never returns a result bundle.
C1_InvalidInputRejected == InvalidInput => (result = <<>> /\ pc # "done")

\* C2: whenever the call fails, it has consumed no draw from rng and no trial
\* has started.
C2_FailsBeforeAnyDraw == pc = "error" => (draws = <<>> /\ sampled_probs = <<>>)

C3_Step ==
    IF pc = "pull" /\ pc' = "loop"
    THEN /\ rewards'[t] = 1 =>
               /\ alpha' = [alpha EXCEPT ![choices[t]] = alpha[choices[t]] + 1]
               /\ beta' = beta
         /\ rewards'[t] # 1 =>
               /\ beta' = [beta EXCEPT ![choices[t]] = beta[choices[t]] + 1]
               /\ alpha' = alpha
    ELSE pc # "call" => (alpha' = alpha /\ beta' = beta)

\* C3: a completed trial changes the posterior in exactly one place, the
\* chosen arm's alpha on reward 1 and its beta otherwise, by +1; no other
\* step changes alpha or beta after their initialisation, and every alpha[i]
\* and beta[i] is at least 1 in every state.
C3_PosteriorFrame ==
    /\ [][C3_Step]_vars
    /\ [](\A i \in DOMAIN alpha : alpha[i] >= 1 /\ beta[i] >= 1)

C3_Witness ==
    /\ pc = "loop" /\ t = 2 /\ n_arms = 2
    /\ \E i \in Idx(n_arms) : \E j \in Idx(n_arms) :
          alpha[i] = 2 /\ beta[i] = 2 /\ alpha[j] = 1 /\ beta[j] = 1

\* C4: after t completed trials alpha[i] + beta[i] - 2 is the number of
\* trials that chose arm i, sum(alpha) + sum(beta) = 2*n_arms + t, and in a
\* returned result the sum is 2*n_arms + n_trials.
C4_IncrementsMatchChoices ==
    /\ \A i \in Idx(n_arms) : alpha[i] + beta[i] - 2 = Times(i)
    /\ total(alpha) + total(beta) = 2 * n_arms + t
    /\ result # <<>> =>
          total(result[1].alpha) + total(result[1].beta) = 2 * n_arms + n_trials

C4_Witness ==
    /\ pc = "done" /\ n_arms = 2 /\ n_trials = 2
    /\ choices[0] # choices[1]

Spread == max(true_probs) - (0 - max([i \in DOMAIN true_probs |-> 0 - true_probs[i]]))

\* C5: every recorded per-trial regret, adaptive and static, is
\* max(true_probs) minus the chosen arm's probability and lies between 0 and
\* max(true_probs) - min(true_probs).
C5_RegretBounds ==
    /\ \A k \in Idx(t) :
          /\ realized_regret[k] = max(true_probs) - true_probs[choices[k]]
          /\ 0 <= realized_regret[k] /\ realized_regret[k] <= Spread
    /\ \A k \in DOMAIN static_realized_regret :
          /\ static_realized_regret[k] = max(true_probs) - true_probs[static_choices[k]]
          /\ 0 <= static_realized_regret[k] /\ static_realized_regret[k] <= Spread

C5_Witness ==
    /\ pc = "done"
    /\ \E k \in Idx(t) : realized_regret[k] > 0
    /\ \E k \in DOMAIN static_realized_regret : static_realized_regret[k] > 0

RunningSum(c, r) ==
    /\ DOMAIN c = Idx(n_trials)
    /\ len(c) = n_trials
    /\ \A k \in DOMAIN c : c[k] = (IF k = 0 THEN 0 ELSE c[k - 1]) + r[k]
    /\ \A k \in DOMAIN c : k > 0 => c[k - 1] <= c[k]

\* C6: in a returned result both cumulative regret series have length
\* n_trials, entry k is entry k-1 plus the regret of trial k, and the series
\* never decrease.
C6_CumulativeRegret ==
    result # <<>> =>
        /\ RunningSum(result[1].cumulative_regret, realized_regret)
        /\ RunningSum(result[1].static_cumulative_regret, static_realized_regret)

C6_Witness ==
    /\ pc = "done" /\ n_trials = 2
    /\ result[1].cumulative_regret[0] > 0
    /\ result[1].cumulative_regret[1] > result[1].cumulative_regret[0]
    /\ result[1].static_cumulative_regret[0] > 0
    /\ result[1].static_cumulative_regret[1] > result[1].static_cumulative_regret[0]

TrialDraws ==
    t * (n_arms + 1)
      + (IF pc = "pull" \/ (pc = "error" /\ sampled_probs # <<>>) THEN n_arms ELSE 0)

DrawOrder ==
    /\ Len(draws) = TrialDraws + (IF pc \in {"ret", "done"} THEN n_trials ELSE 0)
    /\ \A p \in 1..Len(draws) :
          draws[p] = IF p > TrialDraws THEN "integers"
                     ELSE IF (p - 1) % (n_arms + 1) < n_arms THEN "beta"
                     ELSE "binomial"

\* C7: a second call with the same true_probs and n_trials and a generator
\* built from the same seed ends exactly as the first one did, with an equal
\* result bundle; the draws are consumed per trial as the Beta draws and then
\* the Bernoulli draw, the uniform-integer draws only after the last trial.
C7_Deterministic ==
    /\ (run = 2 /\ pc \in {"done", "error"}) => Outcome = first[1]
    /\ DrawOrder

C7_Witness ==
    /\ run = 2 /\ pc = "done" /\ n_arms = 2 /\ n_trials = 2
    /\ choices[0] # choices[1]
    /\ result = first[1].result

C8_Done ==
    /\ t = n_trials
    /\ DOMAIN choices = Idx(n_trials) /\ DOMAIN rewards = Idx(n_trials)
    /\ total([i \in Idx(n_arms) |-> Times(i)]) = n_trials
    /\ Cardinality({p \in 1..Len(draws) : draws[p] = "binomial"}) = n_trials
    /\ Cardinality({p \in 1..Len(draws) : draws[p] = "integers"}) = n_trials
    /\ DOMAIN static_cumulative_regret = Idx(n_trials)

\* C8: on valid input the call never fails and eventually returns; it
\* returns after exactly n_trials iterations, each recording one choice and
\* one reward, and the result exists only once the loop and the baseline
\* have completed.
C8_Terminates ==
    /\ ValidInput ~> (pc = "done")
    /\ [](ValidInput => pc # "error")
    /\ []((ValidInput /\ result # <<>>) => (pc = "done" /\ C8_Done))
    /\ []((ValidInput /\ pc = "done") => result # <<>>)
    /\ [][ValidInput => (t' = t \/ (t' = t + 1 /\ t < n_trials))]_vars

C8_Witness == pc = "done" /\ ValidInput /\ n_trials = MaxTrials /\ n_arms = MaxArms

\* C9: the chosen arm holds the maximal sampled value and is the smallest
\* index that does; with one arm every trial chooses arm 0 with regret 0.
C9_StableArgmax ==
    /\ pc = "pull" =>
          /\ chosen_arm \in Idx(n_arms)
          /\ choices[t] = chosen_arm
          /\ \A j \in Idx(n_arms) : sampled_probs[j] <= sampled_probs[chosen_arm]
          /\ \A j \in Idx(chosen_arm) : sampled_probs[j] < sampled_probs[chosen_arm]
    /\ n_arms = 1 => \A k \in Idx(t) : choices[k] = 0 /\ realized_regret[k] = 0

C9_Witness ==
    /\ pc = "pull" /\ n_arms = 2 /\ t = 1
    /\ sampled_probs[0] = sampled_probs[1]
    /\ sampled_probs[0] = BetaLevels - 1

\* C10: alpha[i] - 1 counts the completed trials that chose arm i with reward
\* 1 and beta[i] - 1 those with reward 0; sum(alpha) - n_arms is the sum of
\* the rewards, and every recorded reward is 0 or 1.
C10_RewardsMatchPosterior ==
    /\ \A i \in Idx(n_arms) :
          /\ alpha[i] - 1 = TimesWith(i, 1)
          /\ beta[i] - 1 = TimesWith(i, 0)
    /\ total(alpha) - n_arms = total(rewards)
    /\ \A k \in DOMAIN rewards : rewards[k] \in {0, 1}

C10_Witness ==
    /\ pc = "done" /\ n_trials = 2
    /\ rewards[0] # rewards[1]

====
